---- MODULE Spec2Model ----
(***************************************************************************)
(* Model of the NSAPH schema compiler (nsaph.data_model.domain.Domain):    *)
(* the walk of Domain.init / Domain.ddl_for_node over a domain spec tree,  *)
(* the statement accumulators it fills, and the executor entry points      *)
(* Domain.create and Domain.drop.                                          *)
(*                                                                         *)
(* SQL text is modelled structurally: a statement is a record naming its   *)
(* kind and the values that the format strings of domain.py interpolate.   *)
(* A fully-qualified name "schema.table" is the pair <<schema, table>>;    *)
(* the empty string stands for "no schema".                                *)
(***************************************************************************)
EXTENDS Integers, Sequences, FiniteSets, TLC

VARIABLES
    spec,              \* Domain.spec[domain]: schema, aux schemas, index policy, tables
    lists,             \* the Python list objects holding "columns" (by identity)
    sloppy,            \* Domain.sloppy
    ddl,               \* Domain.ddl
    common_ddl,        \* Domain.common_ddl
    ddl_by_table,      \* Domain.ddl_by_table
    indices,           \* Domain.indices
    indices_by_table,  \* Domain.indices_by_table
    pc,                \* "new" | "walk" | "done" | "failed"
    todo,              \* pending ddl_for_node calls, <<node, parent>>, next first
    error,             \* the exception that ended the pass ("" if none)
    failed_at,         \* the node whose ddl_for_node call raised (0 if none)
    pass,              \* number of Domain objects constructed over this spec
    first,             \* the accumulators as the first pass left them
    parsed,            \* the spec as it was read at construction (never written)
    conn               \* what the last create()/drop() did on its connection

vars == <<spec, lists, sloppy, ddl, common_ddl, ddl_by_table, indices,
          indices_by_table, pc, todo, error, failed_at, pass, first, parsed,
          conn>>

(***************************************************************************)
(* Bounds of the model.                                                    *)
(***************************************************************************)
MaxNodes == 3      \* tables in the spec tree
MaxPasses == 2     \* Domain objects constructed over the same spec
MaxList == 1       \* length of list_of_tables handed to create()
RecursionLimit == 6  \* nested calls the interpreter allows (sys.getrecursionlimit)
MaxPath == 3       \* segments of a key path handed to has() / get()

NoSchema == ""

TableNames == <<"a", "b", "c", "d", "e">>

Range(s) == { s[k] : k \in DOMAIN s }

(***************************************************************************)
(* Column definitions.  index is "absent" (no "index" key), "true"         *)
(* (index: true) or "onload" (index: {required_before_loading_data: ..}).  *)
(* type "" is a bare column (no "type" key), array marks a type text that  *)
(* ends with "]"; source "" is no "source" key.                            *)
(***************************************************************************)
Column(n, t, arr, ix, src) ==
    [name |-> n, type |-> t, array |-> arr, index |-> ix, source |-> src]

cId   == Column("id", "", FALSE, "absent", "")
cYr   == Column("yr", "INT", FALSE, "absent", "")
cV    == Column("v", "INT", FALSE, "true", "")
cTags == Column("tags", "TEXT", TRUE, "onload", "")
cUid  == Column("uid", "", FALSE, "absent", "id")
cN    == Column("n", "INT", FALSE, "absent", "COUNT(*)")

NoTarget == [schema |-> "", table |-> ""]

\* A table definition; columns are given inline here and moved into `lists`
\* by Init.  hasPK is "primary_key" in definition; create is create.type
\* ("" when the definition has no "create"); groupby <<>> is no "group by";
\* action is invalid.records.action ("" when there is no "invalid.records").
TableDef(columns, hasPK, pk, create, from, groupby, action, target, named) ==
    [columns |-> columns, hasPK |-> hasPK, primary_key |-> pk,
     create |-> create, from |-> from, groupby |-> groupby,
     action |-> action, target |-> target, indices |-> named]

\* the table most tables of a spec are: two columns and a one-column key
PlainDef ==
    TableDef(<<cId, cV>>, TRUE, <<"id">>, "", "", <<>>, "", NoTarget, <<>>)

AuditTarget == [schema |-> "audit", table |-> ""]

\* the definitions one table of a spec may have instead
FeaturedDefs ==
    { \* no primary key, and no column of a parent's key
      TableDef(<<cV>>, FALSE, <<>>, "", "", <<>>, "", NoTarget, <<>>),
      \* two-column key, an array column indexed before loading, a named index
      TableDef(<<cId, cYr, cTags>>, TRUE, <<"id", "yr">>, "", "", <<>>, "",
               NoTarget,
               <<[name |-> "ix", columns |-> <<"id", "yr">>, using |-> ""]>>),
      \* a view; a view with "group by" and a declared key; a materialized view
      TableDef(<<cId, cV>>, FALSE, <<>>, "view", "src", <<>>, "", NoTarget, <<>>),
      TableDef(<<cUid, cN>>, TRUE, <<"n">>, "VIEW", "src", <<"id">>, "",
               NoTarget, <<>>),
      TableDef(<<cId, cV>>, FALSE, <<>>, "materialized view", "src", <<>>, "",
               NoTarget, <<>>),
      \* a table created from the first table of the spec
      TableDef(<<cYr>>, TRUE, <<"id">>, "table", "a", <<>>, "", NoTarget, <<>>),
      \* validation policies
      TableDef(<<cId, cYr>>, TRUE, <<"id", "yr">>, "", "", <<>>, "Insert",
               AuditTarget, <<>>),
      TableDef(<<cId, cV>>, TRUE, <<"id">>, "", "", <<>>, "IGNORE", NoTarget, <<>>),
      TableDef(<<cId, cV>>, TRUE, <<"id">>, "", "", <<>>, "reject",
               AuditTarget, <<>>) }

\* schema, auxiliary "schema.<x>" entries and index policy of a domain
Configs ==
    { [schema |-> "s", aux |-> <<>>, index |-> "selected"],
      [schema |-> "s", aux |-> <<"audit">>, index |-> "all"],
      [schema |-> NoSchema, aux |-> <<"audit", "ext">>, index |-> "explicit"] }

(***************************************************************************)
(* str.lower() on the strings that occur in the specs of this model.       *)
(***************************************************************************)
Lower(s) ==
    CASE s = "VIEW" -> "view"
      [] s = "Insert" -> "insert"
      [] s = "IGNORE" -> "ignore"
      [] OTHER -> s

\* "view" in object_type / "table" in object_type (substring tests)
ContainsView(object_type) == object_type \in {"view", "materialized view"}
ContainsTable(object_type) == object_type \in {"table"}

(***************************************************************************)
(* The spec tree.  tables[i].parent = 0 for the entries of "tables"; the   *)
(* entries of a mapping are iterated in declaration order, which is the    *)
(* order of the node numbers.                                              *)
(***************************************************************************)
RECURSIVE ChildrenFrom(_, _, _)
ChildrenFrom(tables, r, k) ==
    IF k > Len(tables) THEN <<>>
    ELSE (IF tables[k].parent = r THEN <<k>> ELSE <<>>)
         \o ChildrenFrom(tables, r, k + 1)

Children(tables, r) == ChildrenFrom(tables, r, 1)

fqn(table) == <<spec.schema, table>>

\* `not root` for a table definition: a mapping without any key
Empty(tables, r) ==
    /\ tables[r].columns = 0
    /\ ~tables[r].hasPK
    /\ tables[r].create = ""
    /\ tables[r].action = ""
    /\ tables[r].indices = <<>>
    /\ Children(tables, r) = <<>>

RECURSIVE FindUnder(_, _, _, _)
RECURSIVE FindFirst(_, _, _, _)
\* Domain.find(table, root): 0 stands for None, root 0 for "no root given",
\* -1 for the RecursionError of a call nested deeper than RecursionLimit.
\* `if not root` (line 196) sends an empty definition back to the top level.
FindUnder(tables, table, r, depth) ==
    IF depth > RecursionLimit THEN -1
    ELSE LET top  == r = 0 \/ Empty(tables, r)
             kids == Children(tables, IF top THEN 0 ELSE r)
             here == { k \in Range(kids) : tables[k].name = table }
         IN  IF ~top /\ kids = <<>> THEN 0
             ELSE IF here # {} THEN CHOOSE k \in here : TRUE
             ELSE FindFirst(tables, table, kids, depth)

FindFirst(tables, table, kids, depth) ==
    IF kids = <<>> THEN 0
    ELSE LET d == FindUnder(tables, table, Head(kids), depth + 1)
         IN  IF d # 0 THEN d ELSE FindFirst(tables, table, Tail(kids), depth)

find(tables, table) == FindUnder(tables, table, 0, 1)

(***************************************************************************)
(* Statements.                                                             *)
(***************************************************************************)
Feature(f, name, type, array, cols, ref, pname) ==
    [f |-> f, name |-> name, type |-> type, array |-> array, cols |-> cols,
     ref |-> ref, pname |-> pname]

NoRef == <<"", "">>

\* Domain.column_spec: "<name> <type>", VARCHAR when the column has no type
column_spec(column) ==
    Feature("col", column.name,
            IF column.type = "" THEN "VARCHAR" ELSE column.type,
            column.array, <<>>, NoRef, "")

\* Domain.view_column_spec: "<source> AS <name>", or the bare name
view_column_spec(column) ==
    IF column.source # ""
    THEN Feature("select", column.name, column.source, FALSE, <<>>, NoRef, "")
    ELSE Feature("name", column.name, "", FALSE, <<>>, NoRef, "")

PrimaryKey(cols) == Feature("pk", "", "", FALSE, cols, NoRef, "")

\* a foreign key that references the child's own table
MutForeignKeyOwnRef(child, ptable, cols, parent_fqn) ==
    Feature("fk", child, "", FALSE, cols, <<parent_fqn[1], child>>, ptable)

\* CONSTRAINT <child>_to_<parent> FOREIGN KEY (cols) REFERENCES parent (cols)
ForeignKey(child, ptable, cols, parent_fqn) ==
    Feature("fk", child, "", FALSE, cols, parent_fqn, ptable)

CreateSchema(schema) ==
    [kind |-> "CREATE SCHEMA", guard |-> TRUE, schema |-> schema]

\* Domain.create_table + Domain.create_true_table
create_true_table(name, features) ==
    [kind |-> "CREATE TABLE", guard |-> sloppy, name |-> name,
     features |-> features, select |-> "", from |-> NoRef]

\* the text built by Domain.create_table_from_view: CREATE TABLE .. AS SELECT,
\* then one ALTER TABLE .. ADD per feature
TableFromView(name, frm, features) ==
    [kind |-> "CREATE TABLE", guard |-> FALSE, name |-> name,
     features |-> features, select |-> "*", from |-> frm]

\* CREATE_VIEW, with CREATE_VIEW_GROUP_BY when there is a "group by"
CreateView(object_type, name, features, source, groupby) ==
    [kind |-> "CREATE VIEW", object |-> object_type, guard |-> sloppy,
     name |-> name, features |-> features, source |-> source,
     groupby |-> groupby]

IndexName(explicit, table, column) ==
    [explicit |-> explicit, table |-> table, column |-> column]

CreateIndex(name, table, columns, method) ==
    [kind |-> "CREATE INDEX", option |-> "", index |-> name, table |-> table,
     columns |-> columns, method |-> method]

NoAudit == [target |-> NoRef, columns |-> <<>>, reason |-> ""]

\* AUDIT_INSERT
AuditInsert(target, cc, reason) ==
    [target |-> target, columns |-> cc, reason |-> reason]

(***************************************************************************)
(* Domain.spillover_table: the name of the audit table, <<"", "">> for     *)
(* None.  Every target of this model names its schema, so the lookup of    *)
(* spec["schema"] for a target without one only happens with a schema set. *)
(***************************************************************************)
spillover_table(table, definition) ==
    IF definition.action # "" /\ Lower(definition.action) = "insert"
    THEN LET target == definition.target
             ts == IF target.schema # "" THEN target.schema ELSE spec.schema
             tt == IF target.table # "" THEN target.table ELSE table
         IN  <<ts, tt>>
    ELSE NoRef

(***************************************************************************)
(* Index planning.                                                         *)
(***************************************************************************)
\* nsaph.data_model.model.index_method(name) is not None: the naming
\* heuristic of policy "selected"
IndexableName(n) == n \in {"id", "yr"}

\* policy "all" treated like "explicit"
MutNeedIndexIgnoresAll(column) ==
    IF column.index # "absent" THEN TRUE
    ELSE IF spec.index = "selected" THEN IndexableName(column.name)
    ELSE FALSE

\* Domain.need_index
need_index(column) ==
    IF spec.index = "all" THEN TRUE
    ELSE IF column.index # "absent" THEN TRUE
    ELSE IF spec.index = "selected" THEN IndexableName(column.name)
    ELSE FALSE

\* required_before_loading_data not looked at
MutGetIndexDdlNeverOnload(table, column) ==
    LET method == IF column.type # "" /\ column.array THEN "GIN" ELSE "BTREE"
        iname  == IndexName("", table[2], <<column.name>>)
    IN  <<CreateIndex(iname, table, <<column.name>>, method), FALSE>>

\* Domain.get_index_ddl: <<statement, onload>>
get_index_ddl(table, column) ==
    LET onload == column.index = "onload"
        method == IF column.type # "" /\ column.array THEN "GIN" ELSE "BTREE"
        iname  == IndexName("", table[2], <<column.name>>)
    IN  <<CreateIndex(iname, table, <<column.name>>, method), onload>>

\* the statement built by Domain.add_index
NamedIndex(table, index) ==
    CreateIndex(IndexName("", table[2], <<index.name>>), table, index.columns,
                IF index.using # "" THEN index.using ELSE "BTREE")

(***************************************************************************)
(* One call of Domain.ddl_for_node, without its recursion into children.   *)
(* The call works on a record st holding the objects it mutates (tables,   *)
(* lists, ddl, by = ddl_by_table, ind = indices, ibt = indices_by_table),  *)
(* its local variables (columns, features, pk_columns, create_table) and   *)
(* err, the exception raised so far ("" for none).                         *)
(***************************************************************************)
SetKey(f, k, v) == [x \in (DOMAIN f) \cup {k} |-> IF x = k THEN v ELSE f[x]]

\* self.ddl.insert(0, ddl) in place of self.ddl.append(ddl)
MutAppendDdlInFront(st, table, stmt) ==
    [st EXCEPT !.ddl = <<stmt>> \o @, !.by[table] = Append(@, stmt)]

\* Domain.append_ddl
append_ddl(st, table, stmt) ==
    [st EXCEPT !.ddl = Append(@, stmt), !.by[table] = Append(@, stmt)]

Names(columns) == { columns[k].name : k \in DOMAIN columns }

\* lines 266-297: reset of the table's statement list, foreign key columns
NodeEnter(st, i, p) ==
    LET def    == st.tables[i]
        table  == fqn(def.name)
        st1    == [st EXCEPT !.by = SetKey(st.by, table, <<>>)]
        cnames == Names(st.lists[def.columns])
    IN  IF p = 0 THEN [st1 EXCEPT !.columns = st.lists[def.columns]]
        ELSE IF ~st.tables[p].hasPK THEN [st1 EXCEPT !.err = "ParentNoPK"]
        ELSE LET pdef  == st.tables[p]
                 added == SelectSeq(st.lists[pdef.columns],
                              LAMBDA c : c.name \in Range(pdef.primary_key)
                                         /\ c.name \notin cnames)
                 lists1 == [st.lists EXCEPT ![def.columns] = @ \o added]
             IN  [st1 EXCEPT !.lists = lists1,
                             !.columns = lists1[def.columns],
                             !.fk_columns = pdef.primary_key]

\* reverse_map[c] if c in reverse_map else c (a later column wins)
ReverseMap(columns, c) ==
    LET hits == { k \in DOMAIN columns : columns[k].source = c }
    IN  IF hits = {} THEN c
        ELSE columns[CHOOSE k \in hits : \A j \in hits : j <= k].name

\* lines 299-351: the features and the create statement
NodeCreate(st, i, p) ==
    LET def     == st.tables[i]
        table   == fqn(def.name)
        object_type == Lower(def.create)
        is_view == def.create # "" /\ ContainsView(object_type)
        is_table_from_view == def.create # "" /\ ContainsTable(object_type)
        columns == st.columns
        fk      == IF p = 0 THEN <<>>
                   ELSE <<ForeignKey(def.name, st.tables[p].name, st.fk_columns,
                                     fqn(st.tables[p].name))>>
    IN  IF st.err # "" THEN st
        ELSE IF is_view
        THEN LET features == [k \in DOMAIN columns |-> view_column_spec(columns[k])]
                 stmt == CreateView(object_type, table, features, def.from,
                                    def.groupby)
             IN  IF def.groupby # <<>>
                 THEN [st EXCEPT !.features = features, !.create_table = stmt,
                          !.tables[i].hasPK = TRUE,
                          !.tables[i].primary_key =
                              [k \in DOMAIN def.groupby |->
                                  ReverseMap(columns, def.groupby[k])]]
                 ELSE [st EXCEPT !.features = features, !.create_table = stmt]
        ELSE LET cols == [k \in DOMAIN columns |-> column_spec(columns[k])]
                 pk   == IF def.hasPK THEN <<PrimaryKey(def.primary_key)>> ELSE <<>>
                 features == cols \o pk \o fk
                 st1  == [st EXCEPT !.features = features,
                                    !.has_pk_columns = def.hasPK,
                                    !.pk_columns = def.primary_key]
             IN  IF is_table_from_view
                 THEN \* Domain.create_table_from_view
                      LET src == find(st.tables, def.from)
                      IN  IF src = 0 THEN [st1 EXCEPT !.err = "FromNotFound"]
                          ELSE [st1 EXCEPT
                                  !.create_table =
                                      TableFromView(table, fqn(def.from), features),
                                  !.tables[i].columns = st.tables[src].columns,
                                  !.columns = st.lists[st.tables[src].columns]]
                 ELSE [st1 EXCEPT !.create_table = create_true_table(table, features)]

\* line 352
NodeAppend(st, i) ==
    IF st.err # "" THEN st
    ELSE append_ddl(st, fqn(st.tables[i].name), st.create_table)

(***************************************************************************)
(* Domain.add_fk_validation.  pk is None for a view and for a table without*)
(* "primary_key"; fk_columns is None for a table without parent: iterating *)
(* None raises TypeError, looking a key column up in columns_as_dict that  *)
(* is not a column raises KeyError.                                        *)
(***************************************************************************)
Condition(join, cols) == [join |-> join, cols |-> cols]

\* the audit actions bound in the order of the list, not by check
MutValidationProcActionsInListOrder(table, pt, pk, fk_columns, actions) ==
    [kind |-> "CREATE FUNCTION", schema |-> spec.schema, source |-> table[2],
     parent_table |-> fqn(pt),
     condition_dup |-> Condition("AND", pk),         action_dup |-> actions[3],
     condition_fk  |-> Condition("AND", fk_columns), action_fk  |-> actions[2],
     condition_pk  |-> Condition("OR", pk),          action_pk  |-> actions[1]]

\* VALIDATION_PROC filled in at lines 660-664
ValidationProc(table, pt, pk, fk_columns, actions) ==
    [kind |-> "CREATE FUNCTION", schema |-> spec.schema, source |-> table[2],
     parent_table |-> fqn(pt),
     condition_dup |-> Condition("AND", pk),         action_dup |-> actions[1],
     condition_fk  |-> Condition("AND", fk_columns), action_fk  |-> actions[2],
     condition_pk  |-> Condition("OR", pk),          action_pk  |-> actions[3]]

ValidationTrigger(table) ==
    [kind |-> "CREATE TRIGGER", schema |-> spec.schema, source |-> table[2],
     table |-> table]

\* an unknown action handled like "ignore"
MutAddFkValidationNoRaise(st, table, action, target, pt) ==
    LET cc == [k \in DOMAIN st.columns |-> st.columns[k].name]
        actions ==
            IF action = "insert"
            THEN <<AuditInsert(target, cc, "DUPLICATE"),
                   AuditInsert(target, cc, "FOREIGN KEY"),
                   AuditInsert(target, cc, "PRIMARY KEY")>>
            ELSE <<NoAudit, NoAudit, NoAudit>>
    IN  IF ~st.has_pk_columns
            THEN [st EXCEPT !.err = "TypeError"]
        ELSE IF ~(Range(st.pk_columns) \subseteq Names(st.columns))
            THEN [st EXCEPT !.err = "KeyError"]
        ELSE IF pt = ""
            THEN [st EXCEPT !.err = "TypeError"]
        ELSE IF ~(Range(st.fk_columns) \subseteq Names(st.columns))
            THEN [st EXCEPT !.err = "KeyError"]
        ELSE append_ddl(
                append_ddl(st, table,
                    ValidationProc(table, pt, st.pk_columns, st.fk_columns,
                                   actions)),
                table, ValidationTrigger(table))

add_fk_validation(st, table, action, target, pt) ==
    LET cc == [k \in DOMAIN st.columns |-> st.columns[k].name]
        actions ==
            IF action = "insert"
            THEN <<AuditInsert(target, cc, "DUPLICATE"),
                   AuditInsert(target, cc, "FOREIGN KEY"),
                   AuditInsert(target, cc, "PRIMARY KEY")>>
            ELSE <<NoAudit, NoAudit, NoAudit>>
    IN  IF action \notin {"insert", "ignore"}
            THEN [st EXCEPT !.err = "InvalidAction"]
        ELSE IF ~st.has_pk_columns
            THEN [st EXCEPT !.err = "TypeError"]
        ELSE IF ~(Range(st.pk_columns) \subseteq Names(st.columns))
            THEN [st EXCEPT !.err = "KeyError"]
        ELSE IF pt = ""
            THEN [st EXCEPT !.err = "TypeError"]
        ELSE IF ~(Range(st.fk_columns) \subseteq Names(st.columns))
            THEN [st EXCEPT !.err = "KeyError"]
        ELSE append_ddl(
                append_ddl(st, table,
                    ValidationProc(table, pt, st.pk_columns, st.fk_columns,
                                   actions)),
                table, ValidationTrigger(table))

Reason == Feature("col", "REASON", "VARCHAR(16)", FALSE, <<>>, NoRef, "")
RecordedAt ==
    Feature("col", "recorded_at", "TIMESTAMP DEFAULT CURRENT_TIMESTAMP", FALSE,
            <<>>, NoRef, "")

\* the spillover CREATE TABLE of lines 358-362
Spillover(t2, features) ==
    create_true_table(t2,
        SelectSeq(features, LAMBDA f : f.f \notin {"pk", "fk"})
            \o <<Reason, RecordedAt>>)

\* lines 353-364
NodeValidate(st, i, p) ==
    LET def   == st.tables[i]
        table == fqn(def.name)
        action == Lower(def.action)
        t2    == spillover_table(def.name, def)
        st1   == IF t2 # NoRef
                 THEN append_ddl(st, table, Spillover(t2, st.features))
                 ELSE st
        pt    == IF p = 0 THEN "" ELSE st.tables[p].name
    IN  IF st.err # "" \/ def.action = "" THEN st
        ELSE add_fk_validation(st1, table, action, t2, pt)

\* lines 374-377, and the tail of Domain.add_index
Defer(st, table, stmt) ==
    [st EXCEPT !.ind = Append(@, stmt),
               !.ibt = IF table \in DOMAIN st.ibt
                       THEN [st.ibt EXCEPT ![table] = Append(@, stmt)]
                       ELSE SetKey(st.ibt, table, <<stmt>>)]

\* lines 367-377
RECURSIVE IndexColumns(_, _, _)
IndexColumns(st, table, columns) ==
    IF columns = <<>> THEN st
    ELSE LET column == Head(columns)
             r == get_index_ddl(table, column)
             st1 == IF ~need_index(column) THEN st
                    ELSE IF r[2] THEN append_ddl(st, table, r[1])
                    ELSE Defer(st, table, r[1])
         IN  IndexColumns(st1, table, Tail(columns))

\* lines 386-388
RECURSIVE AddIndices(_, _, _)
AddIndices(st, table, named) ==
    IF named = <<>> THEN st
    ELSE AddIndices(Defer(st, table, NamedIndex(table, Head(named))), table,
                    Tail(named))

\* lines 366-388
NodeIndices(st, i) ==
    LET def   == st.tables[i]
        table == fqn(def.name)
        st1   == IF def.create # "" /\ Lower(def.create) = "view" THEN st
                 ELSE IndexColumns(st, table, st.columns)
    IN  IF st.err # "" THEN st
        ELSE AddIndices(st1, table, def.indices)

\* Domain.ddl_for_node up to its recursion into the children
ddl_for_node(i, p) ==
    LET st0 == [tables |-> spec.tables, lists |-> lists, ddl |-> ddl,
                by |-> ddl_by_table, ind |-> indices, ibt |-> indices_by_table,
                err |-> "", columns |-> <<>>, features |-> <<>>,
                fk_columns |-> <<>>, has_pk_columns |-> FALSE,
                pk_columns |-> <<>>,
                create_table |-> CreateSchema("")]
    IN  NodeIndices(
            NodeValidate(
                NodeAppend(NodeCreate(NodeEnter(st0, i, p), i, p), i), i, p), i)

(***************************************************************************)
(* The specs a behaviour starts from: a tree of up to MaxNodes tables, all *)
(* of them PlainDef except at most one, named in declaration order.        *)
(***************************************************************************)
Shapes(n) == { par \in [1..n -> 0..(n - 1)] : \A i \in 1..n : par[i] < i }

Node(i, par, def) ==
    [name |-> TableNames[i], parent |-> par[i], columns |-> i,
     hasPK |-> def.hasPK, primary_key |-> def.primary_key,
     create |-> def.create, from |-> def.from, groupby |-> def.groupby,
     action |-> def.action, target |-> def.target, indices |-> def.indices]

DefsOf(n) ==
    { [i \in 1..n |-> PlainDef] }
    \cup { [i \in 1..n |-> IF i = k THEN f ELSE PlainDef] :
              k \in 1..n, f \in FeaturedDefs }

NoSnapshot ==
    [ok |-> FALSE, sloppy |-> FALSE, ddl |-> <<>>, common_ddl |-> <<>>,
     ddl_by_table |-> <<>>, indices |-> <<>>, indices_by_table |-> <<>>]

\* op is the method called, table / list_of_tables its argument, events the
\* calls made on the connection and its cursor, result what drop() returned
NoCall ==
    [op |-> "", table |-> "", list_of_tables |-> <<>>, autocommit |-> FALSE,
     events |-> <<>>, result |-> <<>>, error |-> ""]

\* Domain.__init__: empty accumulators, sloppy off
Fresh ==
    /\ sloppy = FALSE
    /\ ddl = <<>>
    /\ common_ddl = <<>>
    /\ ddl_by_table = <<>>
    /\ indices = <<>>
    /\ indices_by_table = <<>>
    /\ pc = "new"
    /\ todo = <<>>
    /\ error = ""
    /\ failed_at = 0

Init ==
    /\ \E n \in 1..MaxNodes : \E par \in Shapes(n) : \E defs \in DefsOf(n) :
       \E cfg \in Configs :
          /\ spec = [schema |-> cfg.schema, aux |-> cfg.aux, index |-> cfg.index,
                     tables |-> [i \in 1..n |-> Node(i, par, defs[i])]]
          /\ lists = [i \in 1..n |-> defs[i].columns]
          /\ parsed = [tables |-> [i \in 1..n |-> Node(i, par, defs[i])],
                       lists |-> [i \in 1..n |-> defs[i].columns]]
    /\ Fresh
    /\ pass = 1
    /\ first = NoSnapshot
    /\ conn = NoCall

\* Domain.set_sloppy, called before init() by LoaderBase.__init__
SetSloppy ==
    /\ pc = "new"
    /\ ~sloppy
    /\ sloppy' = TRUE
    /\ UNCHANGED <<spec, lists, ddl, common_ddl, ddl_by_table, indices,
                   indices_by_table, pc, todo, error, failed_at, pass, first,
                   parsed, conn>>

Pairs(kids, p) == [k \in DOMAIN kids |-> <<kids[k], p>>]

\* the CREATE SCHEMA statements of Domain.init, lines 111-122
SchemaStatements ==
    (IF spec.schema # NoSchema THEN <<CreateSchema(spec.schema)>> ELSE <<>>)
        \o [k \in DOMAIN spec.aux |-> CreateSchema(spec.aux[k])]

\* Domain.init, lines 110-124: the schema statements
StartInit ==
    /\ pc = "new"
    /\ ddl' = SchemaStatements
    /\ common_ddl' = common_ddl \o SchemaStatements
    /\ todo' = Pairs(Children(spec.tables, 0), 0)
    /\ pc' = "walk"
    /\ UNCHANGED <<spec, lists, sloppy, ddl_by_table, indices,
                   indices_by_table, error, failed_at, pass, first, parsed,
                   conn>>

Snapshot(st) ==
    [ok |-> TRUE, sloppy |-> sloppy, ddl |-> st.ddl, common_ddl |-> common_ddl,
     ddl_by_table |-> st.by, indices |-> st.ind, indices_by_table |-> st.ibt]

\* Domain.init, lines 125-126, and the recursion of lines 390-393: the next
\* call of ddl_for_node
Walk ==
    /\ pc = "walk"
    /\ LET i  == Head(todo)[1]
           p  == Head(todo)[2]
           st == ddl_for_node(i, p)
           rest == Pairs(Children(spec.tables, i), i) \o Tail(todo)
       IN  /\ spec' = [spec EXCEPT !.tables = st.tables]
           /\ lists' = st.lists
           /\ ddl' = st.ddl
           /\ ddl_by_table' = st.by
           /\ indices' = st.ind
           /\ indices_by_table' = st.ibt
           /\ error' = st.err
           /\ IF st.err # ""
              THEN /\ pc' = "failed"
                   /\ failed_at' = i
                   /\ todo' = todo
                   /\ first' = first
              ELSE /\ pc' = IF rest = <<>> THEN "done" ELSE "walk"
                   /\ failed_at' = 0
                   /\ todo' = rest
                   /\ first' = IF rest = <<>> /\ pass = 1 THEN Snapshot(st)
                               ELSE first
    /\ UNCHANGED <<sloppy, common_ddl, pass, parsed, conn>>

\* ProjectLoader.save_registry: a new Domain over the registry already walked,
\* and the start of its init() (set_sloppy is not called on it)
NewDomain ==
    /\ pc = "done"
    /\ pass < MaxPasses
    /\ pass' = pass + 1
    /\ sloppy' = FALSE
    /\ ddl' = SchemaStatements
    /\ common_ddl' = SchemaStatements
    /\ ddl_by_table' = <<>>
    /\ indices' = <<>>
    /\ indices_by_table' = <<>>
    /\ todo' = Pairs(Children(spec.tables, 0), 0)
    /\ pc' = "walk"
    /\ error' = ""
    /\ failed_at' = 0
    /\ conn' = NoCall
    /\ UNCHANGED <<spec, lists, first, parsed>>

(***************************************************************************)
(* Domain.find_dependent.  The result is a Python dict: a sequence of      *)
(* entries in insertion order, obj the table found (0 for the "" stored    *)
(* under a spillover name); assigning to a key that is present keeps its   *)
(* position.                                                               *)
(***************************************************************************)
DictSet(d, key, obj) ==
    IF \E k \in DOMAIN d : d[k].key = key
    THEN [k \in DOMAIN d |-> IF d[k].key = key THEN [key |-> key, obj |-> obj]
                             ELSE d[k]]
    ELSE Append(d, [key |-> key, obj |-> obj])

RECURSIVE DictUpdate(_, _)
DictUpdate(d, other) ==
    IF other = <<>> THEN d
    ELSE DictUpdate(DictSet(d, Head(other).key, Head(other).obj), Tail(other))

RECURSIVE find_dependent(_)
RECURSIVE DependentOfChildren(_, _)
\* the spillover entry of the table left out
MutFindDependentNoSpillover(table) ==
    LET t  == find(spec.tables, table)
    IN  DependentOfChildren(<<[key |-> fqn(table), obj |-> t]>>,
                            Children(spec.tables, t))

find_dependent(table) ==
    LET t  == find(spec.tables, table)
        r1 == DependentOfChildren(<<[key |-> fqn(table), obj |-> t]>>,
                                  Children(spec.tables, t))
        t2 == spillover_table(table, spec.tables[t])
    IN  IF t2 # NoRef THEN DictSet(r1, t2, 0) ELSE r1

DependentOfChildren(result, kids) ==
    IF kids = <<>> THEN result
    ELSE DependentOfChildren(
             DictUpdate(result, find_dependent(spec.tables[Head(kids)].name)),
             Tail(kids))

RECURSIVE DependentError(_)
RECURSIVE FirstError(_)
\* the exception a call of find_dependent ends with ("" if it returns): the
\* RecursionError of find, the LookupError of line 213, or that of a nested
\* call for a child (line 217)
DependentError(table) ==
    LET t == find(spec.tables, table)
    IN  IF t = -1 THEN "RecursionError"
        ELSE IF t = 0 THEN "LookupError"
        ELSE FirstError(Children(spec.tables, t))

FirstError(kids) ==
    IF kids = <<>> THEN ""
    ELSE LET e == DependentError(spec.tables[Head(kids)].name)
         IN  IF e # "" THEN e ELSE FirstError(Tail(kids))

Execute(sql) == [ev |-> "execute", sql |-> sql]
Commit == [ev |-> "commit", sql |-> <<>>]

DropStatement(entry) ==
    [kind |-> "DROP",
     object |-> IF entry.obj # 0 /\ spec.tables[entry.obj].create # ""
                THEN spec.tables[entry.obj].create ELSE "TABLE",
     name |-> entry.key]

\* a commit whatever the autocommit mode
MutDropEventsAlwaysCommit(tables, autocommit) ==
    [k \in DOMAIN tables |-> Execute(<<DropStatement(tables[k])>>)] \o <<Commit>>

\* the calls drop() makes on the connection, lines 225-236
DropEvents(tables, autocommit) ==
    [k \in DOMAIN tables |-> Execute(<<DropStatement(tables[k])>>)]
        \o (IF ~autocommit THEN <<Commit>> ELSE <<>>)

\* a missing table taken for an empty set of dependents
MutDropCallNoLookupError(table, autocommit) ==
    IF DependentError(table) # ""
    THEN [NoCall EXCEPT !.op = "drop", !.table = table,
                        !.autocommit = autocommit,
                        !.events = DropEvents(<<>>, autocommit)]
    ELSE LET tables == find_dependent(table)
         IN  [NoCall EXCEPT
                !.op = "drop", !.table = table, !.autocommit = autocommit,
                !.events = DropEvents(tables, autocommit),
                !.result = [k \in DOMAIN tables |-> tables[k].key]]

\* Domain.drop(table, connection): an exception of find_dependent (line 224)
\* leaves before the cursor is opened
DropCall(table, autocommit) ==
    IF DependentError(table) # ""
    THEN [NoCall EXCEPT !.op = "drop", !.table = table,
                        !.autocommit = autocommit,
                        !.error = DependentError(table)]
    ELSE LET tables == find_dependent(table)
         IN  [NoCall EXCEPT
                !.op = "drop", !.table = table, !.autocommit = autocommit,
                !.events = DropEvents(tables, autocommit),
                !.result = [k \in DOMAIN tables |-> tables[k].key]]

\* Domain.drop, on a connection just opened
Drop ==
    /\ pc = "done"
    /\ conn = NoCall
    /\ \E table \in Range(TableNames), autocommit \in BOOLEAN :
          conn' = DropCall(table, autocommit)
    /\ UNCHANGED <<spec, lists, sloppy, ddl, common_ddl, ddl_by_table, indices,
                   indices_by_table, pc, todo, error, failed_at, pass, first,
                   parsed>>

RECURSIVE StatementsFor(_)
\* lines 611-612
StatementsFor(list_of_tables) ==
    IF list_of_tables = <<>> THEN <<>>
    ELSE ddl_by_table[fqn(Head(list_of_tables))]
             \o StatementsFor(Tail(list_of_tables))

\* the table list ignored: the full sequence whatever was requested
MutCreateEventsAlwaysFull(list_of_tables, autocommit) ==
    <<Execute(ddl)>> \o (IF ~autocommit THEN <<Commit>> ELSE <<>>)

\* the calls create() makes on the connection, lines 609-623
CreateEvents(list_of_tables, autocommit) ==
    LET statements == IF list_of_tables # <<>>
                      THEN common_ddl \o StatementsFor(list_of_tables)
                      ELSE ddl
    IN  <<Execute(statements)>> \o (IF ~autocommit THEN <<Commit>> ELSE <<>>)

TablesOfSpec == { spec.tables[k].name : k \in DOMAIN spec.tables }

\* statements = self.common_ddl, without the copy of line 610
MutCreateCallNoCopy(list_of_tables, autocommit) ==
    [conn |-> [NoCall EXCEPT
                 !.op = "create", !.list_of_tables = list_of_tables,
                 !.autocommit = autocommit,
                 !.events = CreateEvents(list_of_tables, autocommit)],
     common_ddl |-> IF list_of_tables # <<>>
                    THEN common_ddl \o StatementsFor(list_of_tables)
                    ELSE common_ddl,
     ddl |-> ddl]

\* Domain.create(connection, list_of_tables): what it does on the connection
\* and what it leaves in the lists it reads.  Line 610 copies common_ddl, so
\* the += of line 612 extends the copy; self.ddl is only read.
CreateCall(list_of_tables, autocommit) ==
    [conn |-> [NoCall EXCEPT
                 !.op = "create", !.list_of_tables = list_of_tables,
                 !.autocommit = autocommit,
                 !.events = CreateEvents(list_of_tables, autocommit)],
     common_ddl |-> common_ddl,
     ddl |-> ddl]

\* Domain.create, on a connection just opened
Create ==
    /\ pc = "done"
    /\ conn = NoCall
    /\ \E n \in 0..MaxList : \E list_of_tables \in [1..n -> TablesOfSpec] :
       \E autocommit \in BOOLEAN :
          LET r == CreateCall(list_of_tables, autocommit)
          IN  /\ conn' = r.conn
              /\ common_ddl' = r.common_ddl
              /\ ddl' = r.ddl
    /\ UNCHANGED <<spec, lists, sloppy, ddl_by_table, indices,
                   indices_by_table, pc, todo, error, failed_at, pass, first,
                   parsed>>

\* LoaderBase._connect: the next call gets a connection of its own
Connect ==
    /\ conn # NoCall
    /\ conn' = NoCall
    /\ UNCHANGED <<spec, lists, sloppy, ddl, common_ddl, ddl_by_table, indices,
                   indices_by_table, pc, todo, error, failed_at, pass, first,
                   parsed>>

Next == SetSloppy \/ StartInit \/ Walk \/ NewDomain

Spec == Init /\ [][Next]_vars

\* the executor entry points on a compiled domain
NextExec == SetSloppy \/ StartInit \/ Walk \/ Create \/ Drop \/ Connect

SpecExec == Init /\ [][NextExec]_vars

(***************************************************************************)
(* The lookups of a Domain that was constructed and not compiled: find and *)
(* find_dependent read the spec only.  The specs here may hold one table   *)
(* whose definition is the empty mapping (definition.get("columns", []),   *)
(* line 267, gives it no column).                                          *)
(***************************************************************************)
EmptyNode(i, par) ==
    [name |-> TableNames[i], parent |-> par[i], columns |-> 0,
     hasPK |-> FALSE, primary_key |-> <<>>, create |-> "", from |-> "",
     groupby |-> <<>>, action |-> "", target |-> NoTarget, indices |-> <<>>]

InitFind ==
    /\ \E n \in 1..MaxNodes : \E par \in Shapes(n) : \E e \in 0..n :
       \E cfg \in Configs :
          LET tables == [i \in 1..n |-> IF i = e THEN EmptyNode(i, par)
                                        ELSE Node(i, par, PlainDef)]
          IN  /\ \A i \in 1..n : par[i] # e
              /\ spec = [schema |-> cfg.schema, aux |-> cfg.aux,
                         index |-> cfg.index, tables |-> tables]
              /\ lists = [i \in 1..n |-> IF i = e THEN <<>>
                                          ELSE PlainDef.columns]
              /\ parsed = [tables |-> tables,
                           lists |-> [i \in 1..n |-> IF i = e THEN <<>>
                                                     ELSE PlainDef.columns]]
    /\ Fresh
    /\ pass = 1
    /\ first = NoSnapshot
    /\ conn = NoCall

\* a call of Domain.find(table); result is <<>> for None
FindCall(table) ==
    LET d == find(spec.tables, table)
    IN  [NoCall EXCEPT !.op = "find", !.table = table,
                       !.result = IF d > 0 THEN <<d>> ELSE <<>>,
                       !.error = IF d = -1 THEN "RecursionError" ELSE ""]

Find ==
    /\ conn = NoCall
    /\ \E table \in Range(TableNames) : conn' = FindCall(table)
    /\ UNCHANGED <<spec, lists, sloppy, ddl, common_ddl, ddl_by_table, indices,
                   indices_by_table, pc, todo, error, failed_at, pass, first,
                   parsed>>

\* a call of Domain.find_dependent(table); result is the keys of the dict
FindDependentCall(table) ==
    IF DependentError(table) # ""
    THEN [NoCall EXCEPT !.op = "find_dependent", !.table = table,
                        !.error = DependentError(table)]
    ELSE LET tables == find_dependent(table)
         IN  [NoCall EXCEPT
                !.op = "find_dependent", !.table = table,
                !.result = [k \in DOMAIN tables |-> tables[k].key]]

FindDependent ==
    /\ conn = NoCall
    /\ \E table \in Range(TableNames) : conn' = FindDependentCall(table)
    /\ UNCHANGED <<spec, lists, sloppy, ddl, common_ddl, ddl_by_table, indices,
                   indices_by_table, pc, todo, error, failed_at, pass, first,
                   parsed>>

NextFind == Find \/ FindDependent \/ Connect

SpecFind == InitFind /\ [][NextFind]_vars

(***************************************************************************)
(* Path lookup, Domain.has and Domain.get.  A value of the spec dictionary *)
(* is a record: t is "top" (the domain mapping), "tables" (the mapping of  *)
(* the tables under node: "tables" or a "children"), "def" (the definition *)
(* of table node), "str" (the string v) or "list" (a list whose string     *)
(* elements are l; elements that are mappings never equal a key).          *)
(***************************************************************************)
Value(t, node, v, l) == [t |-> t, node |-> node, v |-> v, l |-> l]

\* the segments a key path is made of
Segments == {"schema", "tables", "a", "primary_key", "id", "s", "x"}

\* `k in v` for two strings: k occurs in v
Substring(k, v) ==
    \/ k = v
    \/ <<k, v>> \in { <<"s", "selected">>, <<"a", "all">>, <<"a", "audit">>,
                      <<"x", "explicit">>, <<"x", "ext">> }

BareNames(columns) ==
    LET bare == SelectSeq(columns, LAMBDA c : c.type = "" /\ c.source = "")
    IN  [k \in DOMAIN bare |-> bare[k].name]

\* the keys of a mapping
KeysOf(s) ==
    CASE s.t = "top" ->
             {"tables", "index"}
                 \cup (IF spec.schema # NoSchema THEN {"schema"} ELSE {})
      [] s.t = "tables" ->
             { spec.tables[k].name : k \in Range(Children(spec.tables, s.node)) }
      [] s.t = "def" ->
             (IF spec.tables[s.node].columns # 0 THEN {"columns"} ELSE {})
                 \cup (IF spec.tables[s.node].hasPK THEN {"primary_key"} ELSE {})
                 \cup (IF Children(spec.tables, s.node) # <<>>
                       THEN {"children"} ELSE {})
      [] OTHER -> {}

\* `k in s` (lines 174, 184)
In(k, s) ==
    CASE s.t = "str" -> Substring(k, s.v)
      [] s.t = "list" -> k \in Range(s.l)
      [] OTHER -> k \in KeysOf(s)

\* s[k] for a key of a mapping
Item(s, k) ==
    CASE s.t = "top" /\ k = "schema" -> Value("str", 0, spec.schema, <<>>)
      [] s.t = "top" /\ k = "index" -> Value("str", 0, spec.index, <<>>)
      [] s.t = "top" /\ k = "tables" -> Value("tables", 0, "", <<>>)
      [] s.t = "tables" ->
             Value("def",
                   CHOOSE i \in Range(Children(spec.tables, s.node)) :
                       spec.tables[i].name = k,
                   "", <<>>)
      [] s.t = "def" /\ k = "columns" ->
             Value("list", s.node, "",
                   BareNames(lists[spec.tables[s.node].columns]))
      [] s.t = "def" /\ k = "primary_key" ->
             Value("list", s.node, "", spec.tables[s.node].primary_key)
      [] s.t = "def" /\ k = "children" -> Value("tables", s.node, "", <<>>)

RECURSIVE PathLoop(_, _)
\* the loop of has() and get(), lines 173-177 and 183-187: out is "end" when
\* the keys are used up, "absent" at the else branch, "TypeError" when s[k]
\* is the subscript of a string or a list by a string
PathLoop(keys, s) ==
    IF keys = <<>> THEN [out |-> "end", s |-> s]
    ELSE IF In(Head(keys), s)
         THEN IF s.t \in {"str", "list"} THEN [out |-> "TypeError", s |-> s]
              ELSE PathLoop(Tail(keys), Item(s, Head(keys)))
         ELSE [out |-> "absent", s |-> s]

Top == Value("top", 0, "", <<>>)

\* Domain.has(key), keys = key.split('/')
HasCall(keys) ==
    LET r == PathLoop(keys, Top)
    IN  [NoCall EXCEPT !.op = "has", !.list_of_tables = keys,
                       !.result = IF r.out = "TypeError" THEN <<>>
                                  ELSE <<r.out = "end">>,
                       !.error = IF r.out = "TypeError" THEN "TypeError" ELSE ""]

\* Domain.get(key); result is <<>> for None
GetCall(keys) ==
    LET r == PathLoop(keys, Top)
    IN  [NoCall EXCEPT !.op = "get", !.list_of_tables = keys,
                       !.result = IF r.out = "end" THEN <<r.s>> ELSE <<>>,
                       !.error = IF r.out = "TypeError" THEN "TypeError" ELSE ""]

Paths == UNION { [1..n -> Segments] : n \in 1..MaxPath }

Has ==
    /\ conn = NoCall
    /\ \E keys \in Paths : conn' = HasCall(keys)
    /\ UNCHANGED <<spec, lists, sloppy, ddl, common_ddl, ddl_by_table, indices,
                   indices_by_table, pc, todo, error, failed_at, pass, first,
                   parsed>>

Get ==
    /\ conn = NoCall
    /\ \E keys \in Paths : conn' = GetCall(keys)
    /\ UNCHANGED <<spec, lists, sloppy, ddl, common_ddl, ddl_by_table, indices,
                   indices_by_table, pc, todo, error, failed_at, pass, first,
                   parsed>>

\* the specs of the path lookups: a chain of plain tables
InitPath ==
    /\ \E n \in 1..MaxNodes : \E cfg \in Configs :
          LET par    == [i \in 1..n |-> i - 1]
              tables == [i \in 1..n |-> Node(i, par, PlainDef)]
          IN  /\ spec = [schema |-> cfg.schema, aux |-> cfg.aux,
                         index |-> cfg.index, tables |-> tables]
              /\ lists = [i \in 1..n |-> PlainDef.columns]
              /\ parsed = [tables |-> tables,
                           lists |-> [i \in 1..n |-> PlainDef.columns]]
    /\ Fresh
    /\ pass = 1
    /\ first = NoSnapshot
    /\ conn = NoCall

NextPath == Has \/ Get \/ Connect

SpecPath == InitPath /\ [][NextPath]_vars

(***************************************************************************)
(* The generated validation function at work: the body of VALIDATION_PROC  *)
(* run BEFORE INSERT for a row NEW, against the rows of the parent table   *)
(* and of the table itself.  A row maps column names to values.            *)
(***************************************************************************)
Null == "NULL"
NonNull == {"p", "q"}

\* "NEW.c IS NULL" joined by the condition's connective
IsNullCondition(cond, new) ==
    IF cond.join = "OR" THEN \E c \in Range(cond.cols) : new[c] = Null
    ELSE \A c \in Range(cond.cols) : new[c] = Null

\* "NEW.c = t.c" joined by AND, for a row t (a comparison with NULL selects
\* nothing)
Matches(cond, new, t) ==
    \A c \in Range(cond.cols) : new[c] # Null /\ t[c] # Null /\ new[c] = t[c]

\* the body of the function, lines 26-48: the three IF blocks in the order of
\* the template, each with its action and RETURN NULL, then RETURN NEW
RunValidation(proc, new, parent, own) ==
    IF IsNullCondition(proc.condition_pk, new)
    THEN [check |-> "pk", action |-> proc.action_pk, ret |-> "NULL"]
    ELSE IF ~\E t \in parent : Matches(proc.condition_fk, new, t)
    THEN [check |-> "fk", action |-> proc.action_fk, ret |-> "NULL"]
    ELSE IF \E t \in own : Matches(proc.condition_dup, new, t)
    THEN [check |-> "dup", action |-> proc.action_dup, ret |-> "NULL"]
    ELSE [check |-> "", action |-> NoAudit, ret |-> "NEW"]

\* an INSERT of the row new into the table of the function ddl[k]; events
\* holds the audit INSERT the function executed, if any
InsertCall(k, new, parent, own) ==
    LET r == RunValidation(ddl[k], new, parent, own)
    IN  [NoCall EXCEPT
           !.op = "insert", !.table = ddl[k].source,
           !.events = IF r.action # NoAudit
                      THEN <<[ev |-> "audit", sql |-> <<r.action>>]>> ELSE <<>>,
           !.result = <<[new |-> new, parent |-> parent, own |-> own,
                         check |-> r.check, ret |-> r.ret]>>]

InsertRow ==
    /\ pc = "done"
    /\ conn = NoCall
    /\ \E k \in DOMAIN ddl :
          /\ ddl[k].kind = "CREATE FUNCTION"
          /\ LET pk == Range(ddl[k].condition_dup.cols)
                 fk == Range(ddl[k].condition_fk.cols)
             IN  \E new \in [pk \cup fk -> NonNull \cup {Null}] :
                 \E parent \in SUBSET [fk -> NonNull] :
                 \E own \in {{}} \cup { {t} : t \in [pk -> NonNull] } :
                     conn' = InsertCall(k, new, parent, own)
    /\ UNCHANGED <<spec, lists, sloppy, ddl, common_ddl, ddl_by_table, indices,
                   indices_by_table, pc, todo, error, failed_at, pass, first,
                   parsed>>

NextTrigger == SetSloppy \/ StartInit \/ Walk \/ InsertRow \/ Connect

SpecTrigger == Init /\ [][NextTrigger]_vars

(***************************************************************************)
(* Vocabulary of the properties.                                           *)
(***************************************************************************)
Nodes == DOMAIN spec.tables

NameOf(i) == spec.tables[i].name

ParentOf(i) == spec.tables[i].parent

\* the per-table statement list of node i (empty before the walk reaches it)
ListOf(i) ==
    IF fqn(NameOf(i)) \in DOMAIN ddl_by_table THEN ddl_by_table[fqn(NameOf(i))]
    ELSE <<>>

Owns(i, stmt) == \E k \in DOMAIN ListOf(i) : ListOf(i)[k] = stmt

IsView(def) == def.create # "" /\ ContainsView(Lower(def.create))

IsPlainView(def) == def.create # "" /\ Lower(def.create) = "view"

IsTableFromView(def) == def.create # "" /\ ContainsTable(Lower(def.create))

HasFk(stmt, child, parent, cols) ==
    \E k \in DOMAIN stmt.features :
        stmt.features[k] = Feature("fk", child, "", FALSE, cols, fqn(parent),
                                   parent)

Count(seq, Test(_)) == Cardinality({ k \in DOMAIN seq : Test(seq[k]) })

\* C1: in the full statement sequence no statement of a table comes before a
\* statement of its declared parent table, nor before a CREATE SCHEMA statement.
C1_ParentAndSchemaFirst ==
    \A a \in DOMAIN ddl, b \in DOMAIN ddl :
        a < b =>
            \A t \in Nodes :
                Owns(t, ddl[a]) =>
                    /\ ddl[b].kind # "CREATE SCHEMA"
                    /\ ParentOf(t) # 0 => ~Owns(ParentOf(t), ddl[b])

C1_Witness ==
    /\ pc = "done"
    /\ common_ddl # <<>>
    /\ \E t \in Nodes : ParentOf(t) # 0 /\ ParentOf(t) < t - 1 /\ ListOf(t) # <<>>

\* C2 as claimed: the create statement of every child of a table has the
\* constraint <child>_to_<parent> over the parent's declared primary_key,
\* referencing the parent's fully-qualified name.
C2_AsClaimed ==
    \A c \in Nodes :
        (ParentOf(c) # 0 /\ ListOf(c) # <<>>) =>
            HasFk(Head(ListOf(c)), NameOf(c), NameOf(ParentOf(c)),
                  parsed.tables[ParentOf(c)].primary_key)

\* the key a child's constraint is built from: the parent's primary_key as it
\* stands when the child is compiled
KeyForChildren(p) ==
    IF IsView(parsed.tables[p]) /\ parsed.tables[p].groupby # <<>>
    THEN spec.tables[p].primary_key
    ELSE parsed.tables[p].primary_key

\* C2 as amended: the create statement of every child that is not a view has
\* the constraint <child>_to_<parent>, referencing the parent's fully-qualified
\* name, over the parent's declared primary_key, or, when the parent is a view
\* with a "group by", over the key back-filled from that clause.
C2_ChildForeignKey ==
    \A c \in Nodes :
        (ParentOf(c) # 0 /\ ListOf(c) # <<>> /\ ~IsView(spec.tables[c])) =>
            /\ Head(ListOf(c)).kind = "CREATE TABLE"
            /\ HasFk(Head(ListOf(c)), NameOf(c), NameOf(ParentOf(c)),
                     KeyForChildren(ParentOf(c)))

C2_Witness ==
    /\ pc = "done"
    /\ \E c \in Nodes :
          /\ ParentOf(c) # 0
          /\ ~parsed.tables[c].hasPK
          /\ ~IsView(spec.tables[c])
          /\ HasFk(Head(ListOf(c)), NameOf(c), NameOf(ParentOf(c)), <<"id">>)

\* C3 as claimed: a second compilation pass over the spec tree that a first
\* pass has walked yields the statement sequences of the first pass.
C3_AsClaimed ==
    (pc = "done" /\ pass > 1 /\ first.ok /\ sloppy = first.sloppy) =>
        /\ ddl = first.ddl
        /\ common_ddl = first.common_ddl
        /\ ddl_by_table = first.ddl_by_table
        /\ indices = first.indices
        /\ indices_by_table = first.indices_by_table

\* C4 as claimed, sloppy set: every CREATE TABLE and CREATE SCHEMA statement
\* carries the IF NOT EXISTS guard.
C4_SloppyAsClaimed ==
    sloppy =>
        \A k \in DOMAIN ddl :
            ddl[k].kind \in {"CREATE TABLE", "CREATE SCHEMA"} => ddl[k].guard

\* C4 as claimed, sloppy not set: no CREATE TABLE or CREATE SCHEMA statement
\* carries the guard.
C4_StrictAsClaimed ==
    ~sloppy =>
        \A k \in DOMAIN ddl :
            ddl[k].kind \in {"CREATE TABLE", "CREATE SCHEMA"} => ~ddl[k].guard

\* the index entries of column c of node t: deferred, and in the table's list
IsEntry(stmt, t, c) ==
    /\ stmt.kind = "CREATE INDEX"
    /\ stmt.table = fqn(NameOf(t))
    /\ stmt.index = IndexName("", NameOf(t), <<c>>)
    /\ stmt.columns = <<c>>

Entries(t, c) ==
    Count(indices, LAMBDA x : IsEntry(x, t, c))
        + Count(ListOf(t), LAMBDA x : IsEntry(x, t, c))

Declared(t) == parsed.lists[t]

Spills(t) ==
    Count(ListOf(t), LAMBDA x : x.kind = "CREATE TABLE"
                                 /\ x.name # fqn(NameOf(t)))

Functions(t) == Count(ListOf(t), LAMBDA x : x.kind = "CREATE FUNCTION")

Triggers(t) == Count(ListOf(t), LAMBDA x : x.kind = "CREATE TRIGGER")

ActionOf(t) == Lower(spec.tables[t].action)

\* C6 as claimed: for every table whose invalid.records action is "insert",
\* top-level or child, compilation succeeds and the table's list holds exactly
\* one spillover CREATE TABLE (the table's column clauses, REASON, recorded_at),
\* one validation function and one BEFORE INSERT trigger.
C6_AsClaimed ==
    \A t \in Nodes :
        (spec.tables[t].action # "" /\ ActionOf(t) = "insert") =>
            /\ failed_at # t
            /\ pc = "done" =>
                  /\ Spills(t) = 1
                  /\ Functions(t) = 1
                  /\ Triggers(t) = 1
                  /\ \E k \in DOMAIN ListOf(t) :
                        ListOf(t)[k] =
                            Spillover(<<"audit", NameOf(t)>>,
                                      Head(ListOf(t)).features)

\* C7 as claimed: for a table whose action is "ignore", in any letter case, no
\* spillover table is generated, and the validation function and the trigger
\* are generated with the three audit actions empty.
C7_AsClaimed ==
    \A t \in Nodes :
        (spec.tables[t].action # "" /\ ActionOf(t) = "ignore") =>
            /\ failed_at # t
            /\ pc = "done" =>
                  /\ Spills(t) = 0
                  /\ Functions(t) = 1
                  /\ Triggers(t) = 1
                  /\ \A k \in DOMAIN ListOf(t) :
                        ListOf(t)[k].kind = "CREATE FUNCTION" =>
                            /\ ListOf(t)[k].action_pk = NoAudit
                            /\ ListOf(t)[k].action_fk = NoAudit
                            /\ ListOf(t)[k].action_dup = NoAudit

\* C8: a validation action that is neither "insert" nor "ignore" makes the
\* compilation fail: the pass never completes, the error is raised by the call
\* that compiles that table, and no spillover table, validation function or
\* trigger is generated for the table.
C8_InvalidAction ==
    \A t \in Nodes :
        (spec.tables[t].action # "" /\ ActionOf(t) \notin {"insert", "ignore"}) =>
            /\ pc # "done"
            /\ Spills(t) = 0 /\ Functions(t) = 0 /\ Triggers(t) = 0
            /\ ListOf(t) # <<>> =>
                  (pc = "failed" /\ failed_at = t /\ error = "InvalidAction")

C8_Witness ==
    /\ pc = "failed"
    /\ error = "InvalidAction"
    /\ ParentOf(failed_at) # 0
    /\ Len(ListOf(failed_at)) = 1

RECURSIVE AncestorOrSelf(_, _)
\* node a is d or an ancestor of d in the spec tree
AncestorOrSelf(a, d) ==
    IF d = 0 THEN FALSE
    ELSE IF a = d THEN TRUE
    ELSE AncestorOrSelf(a, ParentOf(d))

Position(seq, x) == CHOOSE k \in DOMAIN seq : seq[k] = x

Executes(events) == SelectSeq(events, LAMBDA e : e.ev = "execute")

\* the kind of object a DROP names: create.type of a table of the spec that has
\* a "create", TABLE otherwise (and for a spillover table)
DropKind(key) ==
    LET hit == { d \in Nodes : fqn(NameOf(d)) = key /\ spec.tables[d].create # "" }
    IN  IF hit = {} THEN "TABLE" ELSE spec.tables[CHOOSE d \in hit : TRUE].create

\* C9: drop(table) returns exactly the table, its transitive descendants and
\* the spillover target of each of them that has one, every entry once and a
\* parent before its children; it executes one DROP .. IF EXISTS .. CASCADE per
\* entry, in that order.
C9_DropClosure ==
    (conn.op = "drop" /\ conn.error = "") =>
        LET t    == CHOOSE d \in Nodes : NameOf(d) = conn.table
            D    == { d \in Nodes : AncestorOrSelf(t, d) }
            keys == conn.result
            execs == Executes(conn.events)
        IN  /\ Range(keys) =
                   { fqn(NameOf(d)) : d \in D }
                   \cup { <<"audit", NameOf(d)>> :
                             d \in { x \in D : spec.tables[x].action # ""
                                               /\ ActionOf(x) = "insert" } }
            /\ Cardinality(Range(keys)) = Len(keys)
            /\ keys[1] = fqn(conn.table)
            /\ \A d \in D \ {t} :
                   Position(keys, fqn(NameOf(ParentOf(d))))
                       < Position(keys, fqn(NameOf(d)))
            /\ Len(execs) = Len(keys)
            /\ \A k \in DOMAIN keys :
                   execs[k].sql = <<[kind |-> "DROP", object |-> DropKind(keys[k]),
                                     name |-> keys[k]]>>

\* C9 for find_dependent itself, as claimed: for a table of the domain it
\* returns the table, its transitive descendants and their spillover targets,
\* every entry once, the table first and a parent before its children.
C9_AsClaimed ==
    (conn.op = "find_dependent" /\ \E d \in Nodes : NameOf(d) = conn.table) =>
        LET t    == CHOOSE d \in Nodes : NameOf(d) = conn.table
            D    == { d \in Nodes : AncestorOrSelf(t, d) }
            keys == conn.result
        IN  /\ conn.error = ""
            /\ Range(keys) =
                   { fqn(NameOf(d)) : d \in D }
                   \cup { <<"audit", NameOf(d)>> :
                             d \in { x \in D : spec.tables[x].action # ""
                                               /\ ActionOf(x) = "insert" } }
            /\ Cardinality(Range(keys)) = Len(keys)
            /\ \A d \in D \ {t} :
                   Position(keys, fqn(NameOf(ParentOf(d))))
                       < Position(keys, fqn(NameOf(d)))

C9_Witness ==
    /\ conn.op = "drop"
    /\ Len(conn.result) = 4
    /\ conn.result[4][1] = "audit"
    /\ \E d \in Nodes : ParentOf(d) # 0 /\ ParentOf(ParentOf(d)) # 0
                        /\ fqn(NameOf(d)) \in Range(conn.result)

\* C10: create() and drop() first execute their statements on the cursor and
\* then commit exactly once if and only if the connection is not in autocommit
\* mode: no commit comes before an execute, and none when autocommit is on.
C10_CommitAfterExecute ==
    (conn.op \in {"create", "drop"} /\ conn.error = "") =>
        LET n == Len(conn.events)
            execs == Executes(conn.events)
        IN  /\ Len(execs) >= 1
            /\ conn.events = execs \o (IF conn.autocommit THEN <<>> ELSE <<Commit>>)
            /\ conn.op = "drop" => Len(execs) = Len(conn.result)
            /\ conn.op = "create" =>
                  /\ Len(execs) = 1
                  /\ conn.list_of_tables = <<>> => execs[1].sql = ddl
                  /\ \A k \in DOMAIN common_ddl : execs[1].sql[k] = common_ddl[k]

C10_Witness ==
    /\ conn.op = "drop"
    /\ ~conn.autocommit
    /\ Len(conn.events) = 3
    /\ conn.events[3] = Commit

\* C11: find_dependent or drop of a name that no table of the domain has
\* raises LookupError; drop executes no DROP and commits nothing.
C11_LookupError ==
    (conn.op \in {"drop", "find_dependent"}
        /\ \A d \in Nodes : NameOf(d) # conn.table) =>
        /\ conn.error = "LookupError"
        /\ conn.events = <<>>
        /\ conn.result = <<>>

C11_Witness ==
    /\ conn.op = "drop"
    /\ conn.error = "LookupError"
    /\ ~conn.autocommit
    /\ Cardinality(Nodes) = MaxNodes

\* the first match of Domain.find in search order: the mapping of the
\* current level first, then the subtrees of its entries in declaration order
RECURSIVE FirstMatch(_, _)
RECURSIVE FirstMatchIn(_, _)
FirstMatch(table, r) ==
    LET kids == Children(spec.tables, r)
        here == { k \in Range(kids) : NameOf(k) = table }
    IN  IF here # {} THEN CHOOSE k \in here : TRUE
        ELSE FirstMatchIn(table, kids)

FirstMatchIn(table, kids) ==
    IF kids = <<>> THEN 0
    ELSE LET d == FirstMatch(table, Head(kids))
         IN  IF d # 0 THEN d ELSE FirstMatchIn(table, Tail(kids))

\* C12 as claimed: find(table) returns, for every spec tree, the first table
\* of that name in search order, and "not found" when there is none.
C12_AsClaimed ==
    conn.op = "find" =>
        /\ conn.error = ""
        /\ conn.result = IF FirstMatch(conn.table, 0) = 0 THEN <<>>
                         ELSE <<FirstMatch(conn.table, 0)>>

RECURSIVE Resolves(_, _)
\* every segment of the path names an entry of the mapping reached so far
Resolves(keys, s) ==
    \/ keys = <<>>
    \/ /\ Head(keys) \in KeysOf(s)
       /\ Resolves(Tail(keys), Item(s, Head(keys)))

\* C13 as claimed: has and get never raise; has is true exactly when every
\* segment of the path resolves, and get is "not found" exactly when one does
\* not.
C13_AsClaimed ==
    conn.op \in {"has", "get"} =>
        /\ conn.error = ""
        /\ conn.op = "has" => conn.result = <<Resolves(conn.list_of_tables, Top)>>
        /\ conn.op = "get" =>
               (conn.result = <<>> <=> ~Resolves(conn.list_of_tables, Top))

RECURSIVE Flatten(_)
Flatten(ss) == IF ss = <<>> THEN <<>> ELSE Head(ss) \o Flatten(Tail(ss))

RECURSIVE Preorder(_)
RECURSIVE PreorderOf(_)
\* the tables below r in declaration order, a table before its children
Preorder(r) == PreorderOf(Children(spec.tables, r))

PreorderOf(kids) ==
    IF kids = <<>> THEN <<>>
    ELSE <<Head(kids)>> \o Preorder(Head(kids)) \o PreorderOf(Tail(kids))

NodeNamed(table) == CHOOSE d \in Nodes : NameOf(d) = table

\* C14: create() with a non-empty table list executes all common (CREATE
\* SCHEMA) statements followed by the statement lists of the requested tables
\* in the order requested, and no statement of a table that was not requested;
\* without a list it executes the full sequence, the schema statements and
\* then the tables' statements in declaration order.
C14_SelectiveEmission ==
    (conn.op = "create" /\ conn.error = "") =>
        LET sql == Executes(conn.events)[1].sql
            L   == conn.list_of_tables
            schemas == SelectSeq(ddl, LAMBDA x : x.kind = "CREATE SCHEMA")
        IN  /\ L # <<>> =>
                  /\ sql = schemas
                             \o Flatten([k \in DOMAIN L |-> ListOf(NodeNamed(L[k]))])
                  /\ \A u \in Nodes :
                         NameOf(u) \notin Range(L) =>
                             \A k \in DOMAIN sql : ~Owns(u, sql[k])
            /\ L = <<>> =>
                  /\ sql = ddl
                  /\ sql = schemas
                             \o Flatten([k \in DOMAIN Preorder(0) |->
                                            ListOf(Preorder(0)[k])])

C14_Witness ==
    /\ conn.op = "create"
    /\ conn.list_of_tables # <<>>
    /\ common_ddl # <<>>
    /\ \E u \in Nodes : /\ NameOf(u) \notin Range(conn.list_of_tables)
                         /\ ParentOf(u) # 0
                         /\ NameOf(ParentOf(u)) \in Range(conn.list_of_tables)
                         /\ ListOf(u) # <<>>
    /\ \E u \in Nodes : /\ NameOf(u) \in Range(conn.list_of_tables)
                         /\ Len(ListOf(u)) > 1

\* the columns node t was compiled with
Compiled(t) == lists[spec.tables[t].columns]

\* stmt is the index of column c of table t
IsColumnIndex(stmt, t, c) ==
    /\ stmt.kind = "CREATE INDEX"
    /\ stmt.table = fqn(NameOf(t))
    /\ stmt.index = IndexName("", NameOf(t), <<c.name>>)
    /\ stmt.columns = <<c.name>>

\* stmt is the index declared under "indices" of table t as ix
IsNamedIndex(stmt, t, ix) ==
    /\ stmt.kind = "CREATE INDEX"
    /\ stmt.table = fqn(NameOf(t))
    /\ stmt.index = IndexName("", NameOf(t), <<ix.name>>)
    /\ stmt.columns = ix.columns

Deferred(stmt) ==
    \/ stmt \in Range(indices)
    \/ \E f \in DOMAIN indices_by_table : stmt \in Range(indices_by_table[f])

Inline(stmt) ==
    \/ stmt \in Range(ddl)
    \/ \E f \in DOMAIN ddl_by_table : stmt \in Range(ddl_by_table[f])

\* C15: the index of a column flagged required_before_loading_data is in its
\* table's own statement list and in the full sequence and not in the deferred
\* bucket; every other index generated, of a column without the flag or
\* declared by name, is in indices and indices_by_table only.
C15_OnloadInline ==
    /\ \A k \in DOMAIN ddl :
           ddl[k].kind = "CREATE INDEX" =>
               /\ ~Deferred(ddl[k])
               /\ \E t \in Nodes : \E j \in DOMAIN Compiled(t) :
                      /\ Compiled(t)[j].index = "onload"
                      /\ IsColumnIndex(ddl[k], t, Compiled(t)[j])
                      /\ Owns(t, ddl[k])
    /\ \A f \in DOMAIN ddl_by_table : \A k \in DOMAIN ddl_by_table[f] :
           ddl_by_table[f][k] \in Range(ddl)
    /\ \A k \in DOMAIN indices :
           /\ indices[k].kind = "CREATE INDEX"
           /\ ~Inline(indices[k])
           /\ indices[k].table \in DOMAIN indices_by_table
           /\ indices[k] \in Range(indices_by_table[indices[k].table])
           /\ \E t \in Nodes :
                  \/ \E j \in DOMAIN Compiled(t) :
                         /\ Compiled(t)[j].index # "onload"
                         /\ IsColumnIndex(indices[k], t, Compiled(t)[j])
                  \/ \E j \in DOMAIN spec.tables[t].indices :
                         IsNamedIndex(indices[k], t, spec.tables[t].indices[j])
    /\ \A f \in DOMAIN indices_by_table : \A k \in DOMAIN indices_by_table[f] :
           indices_by_table[f][k] \in Range(indices)
    /\ pc = "done" =>
           \A t \in Nodes :
               /\ ~IsPlainView(spec.tables[t]) =>
                      \A j \in DOMAIN Compiled(t) :
                          Compiled(t)[j].index = "onload" =>
                              \E k \in DOMAIN ListOf(t) :
                                  IsColumnIndex(ListOf(t)[k], t, Compiled(t)[j])
               /\ \A j \in DOMAIN spec.tables[t].indices :
                      \E k \in DOMAIN indices :
                          IsNamedIndex(indices[k], t, spec.tables[t].indices[j])

C15_Witness ==
    /\ pc = "done"
    /\ \E k \in DOMAIN ddl : ddl[k].kind = "CREATE INDEX"
    /\ \E k \in DOMAIN indices : \E t \in Nodes :
           \E j \in DOMAIN spec.tables[t].indices :
               IsNamedIndex(indices[k], t, spec.tables[t].indices[j])
    /\ \E k \in DOMAIN indices : \E t \in Nodes : \E j \in DOMAIN Compiled(t) :
           IsColumnIndex(indices[k], t, Compiled(t)[j])

\* C16 as claimed: when compilation fails because a table with children has
\* no primary_key, the statement set holds no statement of that table or of
\* any of its descendants.
C16_AsClaimed ==
    (pc = "failed" /\ error = "ParentNoPK") =>
        \A d \in Nodes :
            AncestorOrSelf(ParentOf(failed_at), d) => ListOf(d) = <<>>

\* the table a validation function was generated for
Validated == NodeNamed(conn.table)

\* the audit row written by an insert call: its reason, "" when none
AuditReason == IF conn.events = <<>> THEN "" ELSE conn.events[1].sql[1].reason

\* no row of the parent has the values of NEW in the parent's key columns
NoParentRow(o) ==
    ~\E t \in o.parent :
        \A c \in Range(KeyForChildren(ParentOf(Validated))) :
            o.new[c] # Null /\ o.new[c] = t[c]

\* a row of the table itself has the values of NEW in the primary key
SameKeyRow(o) ==
    \E t \in o.own :
        \A c \in Range(spec.tables[Validated].primary_key) :
            o.new[c] # Null /\ o.new[c] = t[c]

\* the check the function answers a row with, taken in the order primary-key
\* null check (a key column of the row is null), parent row, duplicate
ExpectedCheck(o) ==
    IF \E c \in Range(spec.tables[Validated].primary_key) : o.new[c] = Null
    THEN "pk"
    ELSE IF NoParentRow(o) THEN "fk"
    ELSE IF SameKeyRow(o) THEN "dup"
    ELSE ""

ReasonOf(check) ==
    CASE check = "pk" -> "PRIMARY KEY"
      [] check = "fk" -> "FOREIGN KEY"
      [] check = "dup" -> "DUPLICATE"
      [] OTHER -> ""

\* C17 as claimed: the checks are evaluated in the order primary key, foreign
\* key, duplicate; each failing check inserts an audit row tagged with its own
\* reason and suppresses the insert, and the row is allowed only when all pass.
C17_AsClaimed ==
    conn.op = "insert" =>
        LET o == conn.result[1]
        IN  /\ o.check = ExpectedCheck(o)
            /\ o.ret = (IF o.check = "" THEN "NEW" ELSE "NULL")
            /\ AuditReason = ReasonOf(o.check)

\* C17 as amended: the order of the checks and the suppression are as claimed
\* for both actions; the audit row with the check's own reason, written to the
\* spillover table, is inserted when the action is "insert", and no audit row
\* is written when it is "ignore".
C17_CheckOrder ==
    conn.op = "insert" =>
        LET o == conn.result[1]
        IN  /\ o.check = ExpectedCheck(o)
            /\ o.ret = (IF o.check = "" THEN "NEW" ELSE "NULL")
            /\ ActionOf(Validated) = "insert" =>
                   /\ AuditReason = ReasonOf(o.check)
                   /\ o.check # "" =>
                          conn.events[1].sql[1].target
                              = spillover_table(conn.table,
                                                spec.tables[Validated])
            /\ ActionOf(Validated) = "ignore" => conn.events = <<>>

C17_Witness ==
    /\ conn.op = "insert"
    /\ ActionOf(Validated) = "insert"
    /\ conn.result[1].check = "dup"
    /\ AuditReason = "DUPLICATE"

\* C18 as claimed: the first check rejects a row exactly when all of its
\* primary-key columns are null.
C18_AsClaimed ==
    conn.op = "insert" =>
        (conn.result[1].check = "pk"
            <=> \A c \in Range(spec.tables[Validated].primary_key) :
                    conn.result[1].new[c] = Null)

\* C19 as claimed: compilation leaves the spec tree as it was parsed, but for
\* the primary_key of a view with "group by", which is set from that clause: no
\* "columns" list is extended or replaced.
C19_AsClaimed ==
    /\ lists = parsed.lists
    /\ \A t \in Nodes :
           IF IsView(parsed.tables[t]) /\ parsed.tables[t].groupby # <<>>
           THEN [spec.tables[t] EXCEPT !.primary_key = <<>>, !.hasPK = FALSE]
                    = [parsed.tables[t] EXCEPT !.primary_key = <<>>,
                                               !.hasPK = FALSE]
           ELSE spec.tables[t] = parsed.tables[t]

\* C20: once the pass has finished, create() and drop() calls leave the full
\* statement list, the common statements, the per-table lists and the deferred
\* index lists as the pass left them.
C20_ReadOnlyAfterPass ==
    pc = "done" =>
        /\ first.ok
        /\ ddl = first.ddl
        /\ common_ddl = first.common_ddl
        /\ ddl_by_table = first.ddl_by_table
        /\ indices = first.indices
        /\ indices_by_table = first.indices_by_table

C20_Witness ==
    /\ pc = "done"
    /\ conn.op = "create"
    /\ conn.list_of_tables # <<>>
    /\ common_ddl # <<>>
    /\ indices # <<>>
    /\ Len(Executes(conn.events)[1].sql) > Len(common_ddl)

(***************************************************************************)
(* Specs in which a table name occurs at more than one place of the tree:  *)
(* the keys of one YAML mapping are distinct, so siblings differ in name,  *)
(* but a table may be named like an ancestor, a cousin or a top-level one. *)
(***************************************************************************)
NamesFor(n, par) ==
    { nm \in [1..n -> Range(TableNames)] :
        /\ \A i \in 1..n :
              nm[i] = TableNames[i] \/ \E j \in 1..(i - 1) : nm[i] = nm[j]
        /\ \A i, j \in 1..n : i # j /\ par[i] = par[j] => nm[i] # nm[j] }

InitDup ==
    /\ \E n \in 1..MaxNodes : \E par \in Shapes(n) : \E nm \in NamesFor(n, par) :
       \E cfg \in Configs :
          LET tables == [i \in 1..n |->
                            [Node(i, par, PlainDef) EXCEPT !.name = nm[i]]]
          IN  /\ spec = [schema |-> cfg.schema, aux |-> cfg.aux,
                         index |-> cfg.index, tables |-> tables]
              /\ lists = [i \in 1..n |-> PlainDef.columns]
              /\ parsed = [tables |-> tables,
                           lists |-> [i \in 1..n |-> PlainDef.columns]]
    /\ Fresh
    /\ pass = 1
    /\ first = NoSnapshot
    /\ conn = NoCall

NextDup == SetSloppy \/ StartInit \/ Walk

SpecDup == InitDup /\ [][NextDup]_vars

IsPrefix(s, t) == Len(s) <= Len(t) /\ SubSeq(t, 1, Len(s)) = s

AppendOnly(old, new) ==
    \A k \in DOMAIN old : k \in DOMAIN new /\ IsPrefix(old[k], new[k])

\* a compilation pass is under way
InPass == pc \in {"new", "walk"}

\* a step that only appends to the shared accumulators
AppendOnlyStep ==
    /\ IsPrefix(ddl, ddl')
    /\ IsPrefix(common_ddl, common_ddl')
    /\ AppendOnly(ddl_by_table, ddl_by_table')
    /\ AppendOnly(indices_by_table, indices_by_table')

\* C21: within a compilation pass every step leaves the full statement list,
\* the common list, each existing per-table statement list and each
\* indices-by-table list with its previous value as a prefix, also when a
\* table name occurs at more than one place of the tree.
C21_AsClaimed == [][InPass => AppendOnlyStep]_vars

\* C22: after a pass on a fresh compiler the full statement sequence is the
\* common (schema) statements followed by the per-table statement lists in
\* depth-first declaration order, which is what create() executes when asked
\* for all tables in walk order, and every statement of the full sequence is
\* in the common list or in exactly one per-table list.
C22_AsClaimed ==
    pc = "done" =>
        LET walk == Preorder(0)
            all  == [k \in DOMAIN walk |-> NameOf(walk[k])]
        IN  /\ ddl = common_ddl \o Flatten([k \in DOMAIN walk |-> ListOf(walk[k])])
            /\ Executes(CreateCall(all, FALSE).conn.events)[1].sql = ddl
            /\ \A k \in DOMAIN ddl :
                   \/ ddl[k] \in Range(common_ddl)
                   \/ Cardinality({ f \in DOMAIN ddl_by_table :
                                      ddl[k] \in Range(ddl_by_table[f]) }) = 1

(***************************************************************************)
(* ProjectLoader.run.  The files found by get_files() are numbered in the  *)
(* order found; entries[k] is the table introspect() names for file k.     *)
(* Two files may give the same table name (a/b.csv and a_b.csv, or a.csv   *)
(* and a.dat), so `tables`, a dict keyed by table name, keeps one file per *)
(* table: the last one, at the place of the first.  Tables are named in    *)
(* order of first occurrence.                                              *)
(***************************************************************************)
Max(S) == CHOOSE x \in S : \A y \in S : y <= x

EntriesOf(m) ==
    { en \in [1..m -> 1..MaxNodes] :
        \A k \in 1..m : en[k] <= 1 + Max({0} \cup { en[j] : j \in 1..(k - 1) }) }

\* tables[table]: the value the dict comprehension of lines 136-139 leaves
FileOf(entries, t) == Max({ k \in DOMAIN entries : entries[k] = t })

cFile   == Column("FILE", "VARCHAR(128)", FALSE, "absent", "")
cRecord == Column("RECORD", "INT", FALSE, "absent", "")

\* Introspector.get_columns() after append_file_column / append_record_column
IntrospectedColumns == <<cYr, cFile, cRecord>>

\* the definition introspect() stores in the registry, lines 111-117
IntrospectedDef ==
    TableDef(IntrospectedColumns, TRUE, <<"FILE", "RECORD">>, "", "", <<>>, "",
             NoTarget, <<>>)

\* a loader constructed over a registry that new_domain() has just written:
\* no tables yet, and LoaderBase.__init__ has compiled it
InitRun ==
    /\ \E cfg \in Configs :
          spec = [schema |-> cfg.schema, aux |-> cfg.aux, index |-> cfg.index,
                  tables |-> <<>>]
    /\ lists = <<>>
    /\ parsed = [tables |-> <<>>, lists |-> <<>>]
    /\ sloppy \in BOOLEAN
    /\ ddl = SchemaStatements
    /\ common_ddl = SchemaStatements
    /\ ddl_by_table = <<>>
    /\ indices = <<>>
    /\ indices_by_table = <<>>
    /\ pc = "done"
    /\ todo = <<>>
    /\ error = ""
    /\ failed_at = 0
    /\ pass = 1
    /\ first = NoSnapshot
    /\ conn = NoCall

\* run(), lines 135-140: every file is introspected into the registry, then
\* save_registry constructs a new Domain over it
RunStart ==
    /\ pc = "done"
    /\ conn = NoCall
    /\ spec.tables = <<>>
    /\ \E m \in 1..MaxNodes : \E entries \in EntriesOf(m) :
          LET n      == Max(Range(entries))
              top    == [i \in 1..n |-> 0]
              tables == [i \in 1..n |-> Node(i, top, IntrospectedDef)]
          IN  /\ spec' = [spec EXCEPT !.tables = tables]
              /\ lists' = [i \in 1..n |-> IntrospectedColumns]
              /\ parsed' = [tables |-> tables,
                            lists |-> [i \in 1..n |-> IntrospectedColumns]]
              /\ conn' = [NoCall EXCEPT !.op = "introspect",
                                        !.list_of_tables = entries]
    /\ sloppy' = FALSE
    /\ ddl' = <<>>
    /\ common_ddl' = <<>>
    /\ ddl_by_table' = <<>>
    /\ indices' = <<>>
    /\ indices_by_table' = <<>>
    /\ pc' = "new"
    /\ todo' = <<>>
    /\ error' = ""
    /\ failed_at' = 0
    /\ pass' = pass + 1
    /\ first' = first

\* what the calls made for one table may do: all return ("ok"), or the named
\* call raises ("load_drop": load() raises and then drop() raises)
Outcomes == {"ok", "set_table", "reset", "load", "load_drop"}

Called(ev, t, raised) == [ev |-> ev, sql |-> <<>>, table |-> t, raised |-> raised]

Inputs == [kind |-> "inputs", entry |-> 0]

SingleFile(k) == [kind |-> "file", entry |-> k]

\* the body of the loop, lines 147-156, for table t loaded from `file`
TableStep(acc, t, file, o) ==
    IF o = "set_table"
    THEN [acc EXCEPT !.events = Append(@, Called("set_table", t, TRUE)),
                     !.error = "set_table"]
    ELSE IF o = "reset"
    THEN [acc EXCEPT !.events = @ \o <<Called("set_table", t, FALSE),
                                        Called("reset", t, TRUE)>>,
                     !.data = SingleFile(file),
                     !.error = "reset"]
    ELSE IF o = "ok"
    THEN [acc EXCEPT !.events = @ \o <<Called("set_table", t, FALSE),
                                        Called("reset", t, FALSE),
                                        Called("load", t, FALSE)>>,
                     !.data = SingleFile(file),
                     !.s = @ + 1]
    ELSE IF o = "load"
    THEN [acc EXCEPT !.events = @ \o <<Called("set_table", t, FALSE),
                                        Called("reset", t, FALSE),
                                        Called("load", t, TRUE),
                                        Called("drop", t, FALSE)>>,
                     !.data = SingleFile(file),
                     !.e = @ + 1]
    ELSE [acc EXCEPT !.events = @ \o <<Called("set_table", t, FALSE),
                                        Called("reset", t, FALSE),
                                        Called("load", t, TRUE),
                                        Called("drop", t, TRUE)>>,
                     !.data = SingleFile(file),
                     !.error = "drop"]

RECURSIVE Loop(_, _, _, _)
\* for table in tables, lines 146-156, and the restore of line 157; an
\* exception that leaves the loop body leaves run()
Loop(acc, entries, outs, t) ==
    IF acc.error # "" THEN acc
    ELSE IF t > Max(Range(entries)) THEN [acc EXCEPT !.data = Inputs]
    ELSE Loop(TableStep(acc, t, FileOf(entries, t), outs[t]), entries, outs,
              t + 1)

\* the rest of run(), lines 141-161
RunLoopCall(entries, dryrun, outs) ==
    LET start == [events |-> <<>>, s |-> 0, e |-> 0, data |-> Inputs,
                  error |-> ""]
        end   == IF dryrun THEN start ELSE Loop(start, entries, outs, 1)
    IN  [NoCall EXCEPT
           !.op = "run", !.list_of_tables = entries,
           !.events = end.events,
           !.result = <<[dryrun |-> dryrun, s |-> end.s, e |-> end.e,
                         data |-> end.data]>>,
           !.error = end.error]

\* run() after save_registry has returned
RunLoop ==
    /\ pc = "done"
    /\ conn.op = "introspect"
    /\ \E dryrun \in BOOLEAN :
       \E outs \in [1..Len(spec.tables) -> Outcomes] :
          conn' = RunLoopCall(conn.list_of_tables, dryrun, outs)
    /\ UNCHANGED <<spec, lists, sloppy, ddl, common_ddl, ddl_by_table, indices,
                   indices_by_table, pc, todo, error, failed_at, pass, first,
                   parsed>>

NextRun == RunStart \/ StartInit \/ Walk \/ RunLoop

SpecRun == InitRun /\ [][NextRun]_vars

Raised(ev, t) == \E k \in DOMAIN conn.events : conn.events[k] = Called(ev, t, TRUE)

WasCalled(ev, t) == \E k \in DOMAIN conn.events :
                        conn.events[k].ev = ev /\ conn.events[k].table = t

\* C23: a run that is not a dry run processes every introspected table in
\* turn (set_table, reset, load) whatever happened to earlier tables; a table
\* whose load() raises is dropped and counted as failed and the loop goes on;
\* when run() finishes, loaded + failed is the number of distinct tables and
\* context.data is what it was before the loop; a dry run resets, loads and
\* drops nothing.
C23_AsClaimed ==
    conn.op = "run" =>
        LET r == conn.result[1]
            n == Len(spec.tables)
        IN  IF r.dryrun THEN conn.events = <<>>
            ELSE /\ \A t \in 1..n :
                       /\ WasCalled("set_table", t)
                       /\ WasCalled("reset", t)
                       /\ WasCalled("load", t)
                       /\ Raised("load", t) => WasCalled("drop", t)
                 /\ \A k \in DOMAIN conn.events : \A j \in 1..(k - 1) :
                       conn.events[j].table <= conn.events[k].table
                 /\ r.s = Cardinality({ t \in 1..n : WasCalled("load", t)
                                                  /\ ~Raised("load", t) })
                 /\ r.e = Cardinality({ t \in 1..n : Raised("load", t) })
                 /\ conn.error = ""
                 /\ r.s + r.e = n
                 /\ r.data = Inputs

\* what holds of run() whenever set_table(), reset() and drop() return: the
\* isolation the loop is written for
RunWhenOnlyLoadRaises ==
    (conn.op = "run" /\ \A t \in 1..Len(spec.tables) :
                            ~Raised("set_table", t) /\ ~Raised("reset", t)
                            /\ ~Raised("drop", t))
        => C23_AsClaimed

====
